---- MODULE Spec2Model ----
(***************************************************************************)
(* A model of the ruly rule-propagation engine: the Variant join           *)
(* semi-lattice (src/variant.rs), the Table of Ident -> Variant            *)
(* (src/table.rs) and the two evaluation algorithms evaluate_priority_once *)
(* and evaluate_naive (src/propagator.rs).                                 *)
(***************************************************************************)
EXTENDS Integers, Sequences, FiniteSets, TLC

\* ------------------------------------------------------------------------
\* Bounds of the model
\* ------------------------------------------------------------------------

\* longest propagator list handed to an evaluation
MaxRules == 3

\* largest iteration limit handed to evaluate_naive
MaxLimit == 5

\* largest amount of Money, in cents, formatted and parsed
MaxCents == 1300

\* ------------------------------------------------------------------------
\* Ident, IdentPath (src/table.rs)
\* ------------------------------------------------------------------------

\* Ident::Intern(&'static str)
Intern(s) == [tag |-> "Intern", name |-> s]

\* Ident::NonIntern(String)
NonIntern(s) == [tag |-> "NonIntern", name |-> s]

X == Intern("x")
Y == Intern("y")
Z == Intern("z")

\* IdentPath::new : a path of length one
IdentPath_new(subject) == [prefix |-> << >>, subject |-> subject]

\* IdentPath::append
IdentPath_append(path, subject) ==
    [prefix |-> Append(path.prefix, path.subject), subject |-> subject]

\* ------------------------------------------------------------------------
\* Variant (src/variant.rs).  Every kind has its own field names, so two
\* values of different kinds are different records.
\* ------------------------------------------------------------------------

Conflict(l, r) == [kind |-> "Conflict", left |-> l, right |-> r]
String(s)      == [kind |-> "String", s |-> s]
Date(d)        == [kind |-> "Date", d |-> d]
Instant(n)     == [kind |-> "Instant", n |-> n]
Float(f)       == [kind |-> "Float", f |-> f]
IntV(i)        == [kind |-> "Int", i |-> i]
Set(ids)       == [kind |-> "Set", ids |-> ids]
\* Variant::Table(Rc<Table>): rc is the identity of the shared allocation,
\* t the Table it holds (a function from a set of Idents to Variants)
Table(rc, t)   == [kind |-> "Table", rc |-> rc, t |-> t]
Invalid(e)     == [kind |-> "Invalid", e |-> e]

\* the f64 that is not equal to itself
NaN == "NaN"

\* f64 == (IEEE): NaN compares unequal to everything, itself included
f64_eq(a, b) == a # NaN /\ b # NaN /\ a = b

\* Table::new
Table_new == [k \in {} |-> Invalid("")]

\* a Table with one / two entries
Table1(k, v) == [q \in {k} |-> v]
Table2(k1, v1, k2, v2) == [q \in {k1, k2} |-> IF q = k1 THEN v1 ELSE v2]

\* Table::get : None is modelled by the absence of the key
Table_has(t, k) == k \in DOMAIN t

\* Table::insert
Table_insert(t, k, v) == [q \in DOMAIN t \cup {k} |-> IF q = k THEN v ELSE t[q]]

\* Variant::as_table
is_table(v) == v.kind = "Table"

\* the value of a Variant without the identities of its allocations
RECURSIVE Content(_)
Content(v) ==
    IF v.kind = "Table"
    THEN [kind |-> "Table", t |-> [k \in DOMAIN v.t |-> Content(v.t[k])]]
    ELSE IF v.kind = "Conflict"
    THEN Conflict(Content(v.left), Content(v.right))
    ELSE v

TableContent(t) == [k \in DOMAIN t |-> Content(t[k])]

\* ------------------------------------------------------------------------
\* Lattice (src/variant.rs, src/table.rs).  join_update returns the new
\* value of the receiver and the `changed` flag.
\* ------------------------------------------------------------------------

Res(v, changed) == [v |-> v, changed |-> changed]

\* Set::join_update reporting a change whenever the other Set is not empty
Set_join_update_eager(a, b) ==
    LET u == a \cup b
    IN  Res(u, b # {})

\* impl Lattice for Set
Set_join_update(a, b) ==
    LET u == a \cup b
    IN  Res(u, Cardinality(u) > Cardinality(a))

RECURSIVE join_update(_, _)

\* the `modified |= ...` accumulation of Table::join_update
Table_modified(r) == \E k \in DOMAIN r : r[k].changed

\* Table::join_update that only visits the keys the receiver already holds:
\* the entries found in `other` alone are lost
Table_join_update_left_keys(a, b) ==
    LET dom == DOMAIN a
        r == [k \in dom |->
                IF k \in DOMAIN b
                THEN join_update(a[k], b[k])
                ELSE Res(a[k], FALSE)]
    IN  Res([k \in dom |-> r[k].v], Table_modified(r))

\* impl Lattice for Table
Table_join_update(a, b) ==
    LET dom == DOMAIN a \cup DOMAIN b
        r == [k \in dom |->
                IF k \in DOMAIN b
                THEN IF k \in DOMAIN a
                     THEN join_update(a[k], b[k])
                     ELSE Res(b[k], TRUE)
                ELSE Res(a[k], FALSE)]
    IN  Res([k \in dom |-> r[k].v], Table_modified(r))

\* join_update_tables: identical allocations are not joined at all.  The
\* values only: which allocation holds the result is Rc_join_update_tables
join_update_tables(a, b) ==
    IF a.rc = b.rc
    THEN Res(a, FALSE)
    ELSE LET r == Table_join_update(a.t, b.t)
         IN  Res(Table(a.rc, r.v), r.changed)

\* the five `(K(a), K(b)) if *a == b` arms
equal_scalars(a, b) ==
    \/ a.kind = "String"  /\ b.kind = "String"  /\ a.s = b.s
    \/ a.kind = "Date"    /\ b.kind = "Date"    /\ a.d = b.d
    \/ a.kind = "Instant" /\ b.kind = "Instant" /\ a.n = b.n
    \/ a.kind = "Float"   /\ b.kind = "Float"   /\ f64_eq(a.f, b.f)
    \/ a.kind = "Int"     /\ b.kind = "Int"     /\ a.i = b.i

\* join_update without the `(Conflict(_, _), _) => false` arm: a Conflict is
\* no longer the top, every further value wraps it into a new Conflict
join_update_no_top(a, b) ==
    IF a.kind = "Set" /\ b.kind = "Set"
    THEN LET r == Set_join_update(a.ids, b.ids) IN Res(Set(r.v), r.changed)
    ELSE IF a.kind = "Table" /\ b.kind = "Table" THEN join_update_tables(a, b)
    ELSE IF equal_scalars(a, b) THEN Res(a, FALSE)
    ELSE IF b.kind = "Conflict" THEN Res(b, TRUE)
    ELSE IF b.kind = "Invalid" THEN Res(a, FALSE)
    ELSE IF a.kind = "Invalid" THEN Res(b, TRUE)
    ELSE Res(Conflict(a, b), TRUE)

\* join_update whose last arm keeps the incoming value instead of forming a
\* Conflict: two contradicting scalars are resolved by the last writer
join_update_overwrite(a, b) ==
    IF a.kind = "Set" /\ b.kind = "Set"
    THEN LET r == Set_join_update(a.ids, b.ids) IN Res(Set(r.v), r.changed)
    ELSE IF a.kind = "Table" /\ b.kind = "Table" THEN join_update_tables(a, b)
    ELSE IF equal_scalars(a, b) THEN Res(a, FALSE)
    ELSE IF a.kind = "Conflict" THEN Res(a, FALSE)
    ELSE IF b.kind = "Conflict" THEN Res(b, TRUE)
    ELSE IF b.kind = "Invalid" THEN Res(a, FALSE)
    ELSE IF a.kind = "Invalid" THEN Res(b, TRUE)
    ELSE Res(b, TRUE)

\* join_update without the `(a, b @ Conflict(_, _))` arm: a Conflict joined
\* into another value is wrapped instead of taking the value's place
join_update_wraps_conflict(a, b) ==
    IF a.kind = "Set" /\ b.kind = "Set"
    THEN LET r == Set_join_update(a.ids, b.ids) IN Res(Set(r.v), r.changed)
    ELSE IF a.kind = "Table" /\ b.kind = "Table" THEN join_update_tables(a, b)
    ELSE IF equal_scalars(a, b) THEN Res(a, FALSE)
    ELSE IF a.kind = "Conflict" THEN Res(a, FALSE)
    ELSE IF b.kind = "Invalid" THEN Res(a, FALSE)
    ELSE IF a.kind = "Invalid" THEN Res(b, TRUE)
    ELSE Res(Conflict(a, b), TRUE)

\* join_update without the `(_, Invalid(_)) => false` arm: an Invalid joined
\* into a valid value falls through to the Conflict arm
join_update_invalid_conflicts(a, b) ==
    IF a.kind = "Set" /\ b.kind = "Set"
    THEN LET r == Set_join_update(a.ids, b.ids) IN Res(Set(r.v), r.changed)
    ELSE IF a.kind = "Table" /\ b.kind = "Table" THEN join_update_tables(a, b)
    ELSE IF equal_scalars(a, b) THEN Res(a, FALSE)
    ELSE IF a.kind = "Conflict" THEN Res(a, FALSE)
    ELSE IF b.kind = "Conflict" THEN Res(b, TRUE)
    ELSE IF a.kind = "Invalid" THEN Res(b, TRUE)
    ELSE Res(Conflict(a, b), TRUE)

\* join_update whose last arm stores the incoming value first
join_update_swapped(a, b) ==
    IF a.kind = "Set" /\ b.kind = "Set"
    THEN LET r == Set_join_update(a.ids, b.ids) IN Res(Set(r.v), r.changed)
    ELSE IF a.kind = "Table" /\ b.kind = "Table" THEN join_update_tables(a, b)
    ELSE IF equal_scalars(a, b) THEN Res(a, FALSE)
    ELSE IF a.kind = "Conflict" THEN Res(a, FALSE)
    ELSE IF b.kind = "Conflict" THEN Res(b, TRUE)
    ELSE IF b.kind = "Invalid" THEN Res(a, FALSE)
    ELSE IF a.kind = "Invalid" THEN Res(b, TRUE)
    ELSE Res(Conflict(b, a), TRUE)

\* join_update reporting a change when an equal scalar comes in
join_update_equal_changes(a, b) ==
    IF a.kind = "Set" /\ b.kind = "Set"
    THEN LET r == Set_join_update(a.ids, b.ids) IN Res(Set(r.v), r.changed)
    ELSE IF a.kind = "Table" /\ b.kind = "Table" THEN join_update_tables(a, b)
    ELSE IF equal_scalars(a, b) THEN Res(a, TRUE)
    ELSE IF a.kind = "Conflict" THEN Res(a, FALSE)
    ELSE IF b.kind = "Conflict" THEN Res(b, TRUE)
    ELSE IF b.kind = "Invalid" THEN Res(a, FALSE)
    ELSE IF a.kind = "Invalid" THEN Res(b, TRUE)
    ELSE Res(Conflict(a, b), TRUE)

\* impl Lattice for Variant: the match arms in the order of the source
join_update(a, b) ==
    IF a.kind = "Set" /\ b.kind = "Set"
    THEN LET r == Set_join_update(a.ids, b.ids) IN Res(Set(r.v), r.changed)
    ELSE IF a.kind = "Table" /\ b.kind = "Table" THEN join_update_tables(a, b)
    ELSE IF equal_scalars(a, b) THEN Res(a, FALSE)
    ELSE IF a.kind = "Conflict" THEN Res(a, FALSE)
    ELSE IF b.kind = "Conflict" THEN Res(b, TRUE)
    ELSE IF b.kind = "Invalid" THEN Res(a, FALSE)
    ELSE IF a.kind = "Invalid" THEN Res(b, TRUE)
    ELSE Res(Conflict(a, b), TRUE)

\* Lattice::join
join(a, b) == join_update(a, b).v

\* ------------------------------------------------------------------------
\* Table lookups (src/table.rs)
\* ------------------------------------------------------------------------

\* Option<T>: None is the empty set, Some(v) the singleton
None == {}
Some(v) == {v}
Unwrap(o) == CHOOSE v \in o : TRUE

\* Ident::Anonymous(u64)
Anonymous(n) == [tag |-> "Anonymous", num |-> n]

\* Table::get
Table_get(t, k) == IF k \in DOMAIN t THEN Some(t[k]) ELSE None

\* the loop of Table::get_path leaving after its first turn: only the first
\* Ident of the prefix is followed
walk_prefix_one_step(step, prefix) ==
    IF prefix = << >>
    THEN Some(step)
    ELSE LET next == Head(prefix)
         IN  IF ~Table_has(step, next) THEN None
             ELSE IF ~is_table(step[next]) THEN None
             ELSE Some(step[next].t)

\* the loop of Table::get_path: step = step.get(next)?.as_table()?
RECURSIVE walk_prefix(_, _)
walk_prefix(step, prefix) ==
    IF prefix = << >>
    THEN Some(step)
    ELSE LET next == Head(prefix)
         IN  IF ~Table_has(step, next) THEN None
             ELSE IF ~is_table(step[next]) THEN None
             ELSE walk_prefix(step[next].t, Tail(prefix))

\* Table::get_path
Table_get_path(t, path) ==
    LET last == walk_prefix(t, path.prefix)
    IN  IF last = None THEN None ELSE Table_get(Unwrap(last), path.subject)

\* Table::join_entry(name, value) -> bool: join the value into the entry,
\* creating the entry if it is absent; true iff the stored value changed.
\* joined tells whether a join_update was performed.
join_entry(t, k, v) ==
    IF Table_has(t, k)
    THEN LET r == join_update(t[k], v)
         IN  [t |-> Table_insert(t, k, r.v), changed |-> r.changed, joined |-> TRUE]
    ELSE [t |-> Table_insert(t, k, v), changed |-> TRUE, joined |-> FALSE]

\* ------------------------------------------------------------------------
\* Propagators (src/propagator.rs)
\* ------------------------------------------------------------------------

\* PropagatorFunc::new
PropagatorFunc(target, deps, func) ==
    [target |-> target, dependencies |-> deps, func |-> func]

\* The closures handed to PropagatorFunc::new.  `calls` is the number of
\* times the closure was invoked before (only "alt" keeps such a count).
\*   const: always Some(a)
\*   copy : the first dependency, if it resolves
\*   copy_int : the first dependency, if it resolves and converts to i64
\*   alt  : a on its 1st, 3rd, ... invocation and b on its 2nd, 4th, ...
\*   mul  : the product of its two dependencies, if both convert to i64
\*   grow : a Set holding one Ident the Set it reads does not hold yet
Func(op, a, b) == [op |-> op, a |-> a, b |-> b]

apply_func(func, input, calls) ==
    IF func.op = "const" THEN Some(func.a)
    ELSE IF func.op = "copy" THEN input[1]
    ELSE IF func.op = "copy_int"
    THEN (IF input[1] # None /\ Unwrap(input[1]).kind = "Int" THEN input[1] ELSE None)
    ELSE IF func.op = "alt" THEN (IF calls % 2 = 0 THEN Some(func.a) ELSE Some(func.b))
    ELSE IF func.op = "mul"
    THEN (IF /\ input[1] # None /\ Unwrap(input[1]).kind = "Int"
             /\ input[2] # None /\ Unwrap(input[2]).kind = "Int"
          THEN Some(IntV(Unwrap(input[1]).i * Unwrap(input[2]).i))
          ELSE None)
    ELSE IF input[1] # None /\ Unwrap(input[1]).kind = "Set"
         THEN Some(Set({Anonymous(Cardinality(Unwrap(input[1]).ids))}))
         ELSE Some(Set({Anonymous(0)}))

\* PropagatorFunc::fire
fire(rule, state, calls) ==
    LET input == [d \in DOMAIN rule.dependencies |->
                    Table_get_path(state, rule.dependencies[d])]
    IN  apply_func(rule.func, input, calls)

\* count_change writing the counter instead of incrementing it
count_change_last(changes, changed) == IF changed THEN 1 ELSE 0

\* evaluate_naive: `if table.join_entry(..) { changes += 1 }`
count_change(changes, changed) == IF changed THEN changes + 1 ELSE changes

\* the body of `for rule in rules` firing the rule against an empty Table
\* instead of the Table as the earlier rules left it
naive_rule_blind(st, rule, calls) ==
    LET f == fire(rule, Table_new, calls)
    IN  IF f = None
        THEN [st EXCEPT !.joined = FALSE]
        ELSE LET j == join_entry(st.table, rule.target, Unwrap(f))
             IN  [table |-> j.t,
                  changes |-> count_change(st.changes, j.changed),
                  joined |-> j.joined]

\* the body of `for rule in rules` storing the fired value over the entry
\* instead of joining it in
naive_rule_insert(st, rule, calls) ==
    LET f == fire(rule, st.table, calls)
    IN  IF f = None
        THEN [st EXCEPT !.joined = FALSE]
        ELSE [table |-> Table_insert(st.table, rule.target, Unwrap(f)),
              changes |-> count_change(st.changes,
                                       Table_get(st.table, rule.target) # f),
              joined |-> FALSE]

\* evaluate_naive: the body of `for rule in rules`
naive_rule(st, rule, calls) ==
    LET f == fire(rule, st.table, calls)
    IN  IF f = None
        THEN [st EXCEPT !.joined = FALSE]
        ELSE LET j == join_entry(st.table, rule.target, Unwrap(f))
             IN  [table |-> j.t,
                  changes |-> count_change(st.changes, j.changed),
                  joined |-> j.joined]

\* priority_rule without the test that the target is absent
priority_rule_no_skip(st, rule, calls) ==
    LET b == fire(rule, st.table, calls)
    IN  IF b = None
        THEN [st EXCEPT !.fired = TRUE, !.joined = FALSE]
        ELSE LET j == join_entry(st.table, rule.target, Unwrap(b))
             IN  [table |-> j.t, changes |-> st.changes + 1,
                  fired |-> TRUE, joined |-> j.joined]

\* priority_rule counting every fire, also one that yields no value
priority_rule_counts_fires(st, rule, calls) ==
    IF Table_get(st.table, rule.target) # None
    THEN [st EXCEPT !.fired = FALSE, !.joined = FALSE]
    ELSE LET b == fire(rule, st.table, calls)
         IN  IF b = None
             THEN [st EXCEPT !.changes = @ + 1, !.fired = TRUE, !.joined = FALSE]
             ELSE LET j == join_entry(st.table, rule.target, Unwrap(b))
                  IN  [table |-> j.t, changes |-> st.changes + 1,
                       fired |-> TRUE, joined |-> j.joined]

\* priority_rule taking a target that holds an Invalid for an absent one
priority_rule_heals(st, rule, calls) ==
    IF /\ Table_get(st.table, rule.target) # None
       /\ Unwrap(Table_get(st.table, rule.target)).kind # "Invalid"
    THEN [st EXCEPT !.fired = FALSE, !.joined = FALSE]
    ELSE LET b == fire(rule, st.table, calls)
         IN  IF b = None
             THEN [st EXCEPT !.fired = TRUE, !.joined = FALSE]
             ELSE LET j == join_entry(st.table, rule.target, Unwrap(b))
                  IN  [table |-> j.t, changes |-> st.changes + 1,
                       fired |-> TRUE, joined |-> j.joined]

\* evaluate_priority_once: the body of `for rule in rules`
priority_rule(st, rule, calls) ==
    IF Table_get(st.table, rule.target) # None
    THEN [st EXCEPT !.fired = FALSE, !.joined = FALSE]
    ELSE LET b == fire(rule, st.table, calls)
         IN  IF b = None
             THEN [st EXCEPT !.fired = TRUE, !.joined = FALSE]
             ELSE LET j == join_entry(st.table, rule.target, Unwrap(b))
                  IN  [table |-> j.t, changes |-> st.changes + 1,
                       fired |-> TRUE, joined |-> j.joined]

\* Result<usize, Error> of evaluate_naive, and the usize of
\* evaluate_priority_once
Ok(n)      == [tag |-> "Ok", n |-> n]
Err(lim)   == [tag |-> "Err", n |-> lim]
Filled(n)  == [tag |-> "Filled", n |-> n]
NoResult   == [tag |-> "none", n |-> 0]

\* the limit test off by one, either way
exhausted_late(iteration, lim) == iteration > lim + 1
exhausted_early(iteration, lim) == iteration >= lim

\* evaluate_naive: `iteration > limit`
exhausted(iteration, lim) == iteration > lim

\* the fixpoint test letting a single change pass
fixed_point_one_change(changes) == changes <= 1

\* evaluate_naive: `changes == 0`
fixed_point(changes) == changes = 0

\* evaluate_naive: one full `for rule in rules`, from position i on; every
\* closure has been invoked `calls` times before the pass
RECURSIVE naive_pass(_, _, _, _)
naive_pass(st, rls, i, calls) ==
    IF i > Len(rls)
    THEN st
    ELSE naive_pass(naive_rule(st, rls[i], calls), rls, i + 1, calls)

\* evaluate_naive: the `loop`, entered with `iteration` passes done
RECURSIVE naive_loop(_, _, _, _)
naive_loop(t, rls, lim, done) ==
    IF exhausted(done + 1, lim)
    THEN [table |-> t, result |-> Err(lim)]
    ELSE LET st == naive_pass([table |-> t, changes |-> 0, joined |-> FALSE],
                              rls, 1, done)
         IN  IF fixed_point(st.changes)
             THEN [table |-> st.table, result |-> Ok(done + 1)]
             ELSE naive_loop(st.table, rls, lim, done + 1)

\* evaluate_naive(table, rules, limit): the Table it leaves and its result
evaluate_naive(t, rls, lim) == naive_loop(t, rls, lim, 0)

\* ------------------------------------------------------------------------
\* The inputs: propagator lists and initial Tables
\* ------------------------------------------------------------------------

Const(target, v) == PropagatorFunc(target, << >>, Func("const", v, v))
Copy(target, path) == PropagatorFunc(target, <<path>>, Func("copy", IntV(0), IntV(0)))

RuleA     == Const(X, IntV(1))
RuleB     == Const(X, IntV(2))
RuleFail  == Const(X, Invalid("e1"))
RuleSetY  == Const(Y, Set({X}))
RuleAlt   == PropagatorFunc(X, << >>, Func("alt", IntV(1), IntV(2)))
RuleYX    == PropagatorFunc(Y, <<IdentPath_new(X)>>, Func("copy_int", IntV(0), IntV(0)))
RuleZY    == Copy(Z, IdentPath_new(Y))
RuleZYx   == Copy(Z, IdentPath_append(IdentPath_new(Y), X))
RuleGrow  == PropagatorFunc(Z, <<IdentPath_new(Z)>>, Func("grow", IntV(0), IntV(0)))

Propagators ==
    {RuleA, RuleB, RuleFail, RuleSetY, RuleAlt, RuleYX, RuleZY, RuleZYx, RuleGrow}

\* the propagator lists: up to MaxRules different propagators in any order
RuleLists ==
    UNION {{l \in [1..n -> Propagators] : \A i, j \in 1..n : i # j => l[i] # l[j]} :
           n \in 0..MaxRules}

\* total = price * qty over a Table that holds price = 10 and qty = 3
Price == Intern("price")
Qty   == Intern("qty")
Total == Intern("total")

RuleTotal ==
    PropagatorFunc(Total, <<IdentPath_new(Price), IdentPath_new(Qty)>>,
                   Func("mul", IntV(0), IntV(0)))

PriceQty == Table2(Price, IntV(10), Qty, IntV(3))

InitTables ==
    {Table_new,
     Table1(X, IntV(1)),
     Table1(X, Invalid("e0")),
     Table1(Y, IntV(2)),
     Table1(Y, Table(1, Table1(X, IntV(2)))),
     Table2(X, IntV(2), Y, Set({Y}))}

\* ------------------------------------------------------------------------
\* State
\* ------------------------------------------------------------------------

VARIABLES
    table,      \* the Table handed to the evaluation (&mut Table)
    rules,      \* the propagator list (&Propagators)
    limit,      \* evaluate_naive's limit
    pc,         \* position in the running evaluation
    iteration,  \* evaluate_naive's iteration
    changes,    \* the changes counter of either evaluation
    idx,        \* position of `for rule in rules`
    result,     \* the value returned
    fires,      \* per propagator: how often it was fired in this call
    joins,      \* how many join_update calls this call performed
    table0,     \* the Table as it was when the evaluation was called
    passTable,  \* the Table at the end of the last completed pass
    la, lb, lc, \* operands of the lattice operations
    lres,       \* result of the last lattice operation
    lchanged,   \* the flag the last join_update returned
    lop,        \* the last lattice operation applied
    call        \* a call of a Table, Ident or Rule operation and its outcome

evalVars == <<table, rules, limit, pc, iteration, changes, idx, result,
              fires, joins, table0, passTable>>
latticeVars == <<la, lb, lc, lres, lchanged, lop>>
vars == <<table, rules, limit, pc, iteration, changes, idx, result,
          fires, joins, table0, passTable, la, lb, lc, lres, lchanged, lop,
          call>>

\* no Table, Ident or Rule operation was called
NoCall == [op |-> "none"]

LatticeIdle ==
    /\ la = IntV(0) /\ lb = IntV(0) /\ lc = IntV(0)
    /\ lres = IntV(0) /\ lchanged = FALSE /\ lop = "none"

Init ==
    /\ \/ table \in InitTables /\ rules \in RuleLists
       \/ table = PriceQty /\ rules = <<RuleTotal>>
    /\ limit = 0
    /\ pc = "idle"
    /\ iteration = 0
    /\ changes = 0
    /\ idx = 0
    /\ result = NoResult
    /\ fires = [i \in DOMAIN rules |-> 0]
    /\ joins = 0
    /\ table0 = table
    /\ passTable = table
    /\ LatticeIdle
    /\ call = NoCall

\* ------------------------------------------------------------------------
\* evaluate_naive, one step per loop iteration
\* ------------------------------------------------------------------------

\* the call: `let mut iteration = 0`
CallNaive ==
    /\ pc = "idle"
    /\ \E lim \in 0..MaxLimit : limit' = lim
    /\ iteration' = 0
    /\ pc' = "naive_loop"
    /\ UNCHANGED <<table, rules, changes, idx, result, fires, joins, table0,
                   passTable>>
    /\ UNCHANGED latticeVars
    /\ UNCHANGED call

\* the head of `loop`: count the iteration, give up beyond the limit
NaiveLoop ==
    /\ pc = "naive_loop"
    /\ iteration' = iteration + 1
    /\ IF exhausted(iteration + 1, limit)
       THEN /\ result' = Err(limit)
            /\ pc' = "done"
            /\ UNCHANGED <<changes, idx>>
       ELSE /\ changes' = 0
            /\ idx' = 1
            /\ pc' = "naive_rules"
            /\ UNCHANGED result
    /\ UNCHANGED <<table, rules, limit, fires, joins, table0, passTable>>
    /\ UNCHANGED latticeVars
    /\ UNCHANGED call

\* one turn of `for rule in rules`
NaiveRule ==
    /\ pc = "naive_rules"
    /\ idx <= Len(rules)
    /\ LET st == naive_rule([table |-> table, changes |-> changes, joined |-> FALSE],
                            rules[idx], fires[idx])
       IN  /\ table' = st.table
           /\ changes' = st.changes
           /\ joins' = IF st.joined THEN joins + 1 ELSE joins
    /\ fires' = [fires EXCEPT ![idx] = @ + 1]
    /\ idx' = idx + 1
    /\ UNCHANGED <<rules, limit, pc, iteration, result, table0, passTable>>
    /\ UNCHANGED latticeVars
    /\ UNCHANGED call

\* the end of a pass: `if changes == 0 { break Ok(iteration) }`
NaivePassEnd ==
    /\ pc = "naive_rules"
    /\ idx > Len(rules)
    /\ passTable' = table
    /\ IF fixed_point(changes)
       THEN /\ result' = Ok(iteration)
            /\ pc' = "done"
       ELSE /\ pc' = "naive_loop"
            /\ UNCHANGED result
    /\ UNCHANGED <<table, rules, limit, iteration, changes, idx, fires, joins,
                   table0>>
    /\ UNCHANGED latticeVars
    /\ UNCHANGED call

\* ------------------------------------------------------------------------
\* evaluate_priority_once
\* ------------------------------------------------------------------------

\* the call: `let mut changes = 0`
CallPriority ==
    /\ pc = "idle"
    /\ changes' = 0
    /\ idx' = 1
    /\ pc' = "priority_rules"
    /\ UNCHANGED <<table, rules, limit, iteration, result, fires, joins, table0,
                   passTable>>
    /\ UNCHANGED latticeVars
    /\ UNCHANGED call

\* one turn of `for rule in rules`
PriorityRule ==
    /\ pc = "priority_rules"
    /\ idx <= Len(rules)
    /\ LET st == priority_rule([table |-> table, changes |-> changes,
                                fired |-> FALSE, joined |-> FALSE],
                               rules[idx], fires[idx])
       IN  /\ table' = st.table
           /\ changes' = st.changes
           /\ fires' = IF st.fired THEN [fires EXCEPT ![idx] = @ + 1] ELSE fires
           /\ joins' = IF st.joined THEN joins + 1 ELSE joins
    /\ idx' = idx + 1
    /\ UNCHANGED <<rules, limit, pc, iteration, result, table0, passTable>>
    /\ UNCHANGED latticeVars
    /\ UNCHANGED call

\* the return of `changes`
PriorityReturn ==
    /\ pc = "priority_rules"
    /\ idx > Len(rules)
    /\ result' = Filled(changes)
    /\ pc' = "done"
    /\ UNCHANGED <<table, rules, limit, iteration, changes, idx, fires, joins,
                   table0, passTable>>
    /\ UNCHANGED latticeVars
    /\ UNCHANGED call

Next ==
    \/ CallNaive
    \/ NaiveLoop
    \/ NaiveRule
    \/ NaivePassEnd
    \/ CallPriority
    \/ PriorityRule
    \/ PriorityReturn

Spec == Init /\ [][Next]_vars

\* ------------------------------------------------------------------------
\* The lattice operations on their own: operands from every kind
\* ------------------------------------------------------------------------

LatticeValues ==
    {String("A"), String("B"), Date("2024-01-01"), Instant("2024-01-01T00:00:00Z"),
     Float("1.5"), Float(NaN), IntV(1), IntV(2),
     Set({X}), Set({Y}), Set({X, Y}),
     Invalid("e1"), Invalid("e2"),
     Conflict(IntV(1), IntV(2)), Conflict(String("A"), IntV(1)),
     Table(1, Table1(X, IntV(1))),
     Table(2, Table1(X, IntV(1))),
     Table(3, Table2(X, IntV(2), Y, String("A"))),
     Table(4, Table1(Y, Table(1, Table1(X, IntV(1))))),
     Table(5, Table1(Y, Table(3, Table2(X, IntV(2), Y, String("A")))))}

EvalIdle ==
    /\ table = Table_new /\ rules = << >> /\ limit = 0 /\ pc = "idle"
    /\ iteration = 0 /\ changes = 0 /\ idx = 0 /\ result = NoResult
    /\ fires = << >> /\ joins = 0 /\ table0 = Table_new
    /\ passTable = Table_new

InitLattice ==
    /\ EvalIdle
    /\ la \in LatticeValues
    /\ lb \in LatticeValues
    /\ lc \in LatticeValues
    /\ lres = la
    /\ lchanged = FALSE
    /\ lop = "none"
    /\ call = NoCall

\* a.join_update(b)
LatticeJoin ==
    /\ lop = "none"
    /\ LET r == join_update(la, lb)
       IN  lres' = r.v /\ lchanged' = r.changed
    /\ lop' = "join"
    /\ UNCHANGED <<la, lb, lc>>
    /\ UNCHANGED evalVars
    /\ UNCHANGED call

\* joining b once more into a.join(b)
LatticeJoinAgain ==
    /\ lop = "join"
    /\ LET r == join_update(lres, lb)
       IN  lres' = r.v /\ lchanged' = r.changed
    /\ lop' = "again"
    /\ UNCHANGED <<la, lb, lc>>
    /\ UNCHANGED evalVars
    /\ UNCHANGED call

\* joining c into a.join(b)
LatticeJoinThird ==
    /\ lop = "join"
    /\ LET r == join_update(lres, lc)
       IN  lres' = r.v /\ lchanged' = r.changed
    /\ lop' = "third"
    /\ UNCHANGED <<la, lb, lc>>
    /\ UNCHANGED evalVars
    /\ UNCHANGED call

NextLattice ==
    \/ LatticeJoin
    \/ LatticeJoinAgain
    \/ LatticeJoinThird

SpecLattice == InitLattice /\ [][NextLattice]_vars

\* ------------------------------------------------------------------------
\* Properties of the lattice
\* ------------------------------------------------------------------------

\* C1: join is commutative: a.join(b) has the same value as b.join(a), the
\* payload of a resulting Conflict or Invalid included.
JoinCommutative ==
    lop = "join" => Content(lres) = Content(join(lb, la))

\* C2: join is associative: a.join(b).join(c) has the same value as
\* a.join(b.join(c)), the payload of a resulting Conflict included.
JoinAssociative ==
    lop = "third" => Content(lres) = Content(join(la, join(lb, lc)))

\* C3: join is idempotent: joining v into v gives v and reports no change,
\* and joining b a second time into a.join(b) changes nothing.
JoinIdempotent ==
    /\ (lop = "join" /\ Content(la) = Content(lb))
          => (Content(lres) = Content(la) /\ ~lchanged)
    /\ lop = "again" => (Content(lres) = Content(join(la, lb)) /\ ~lchanged)

\* ------------------------------------------------------------------------
\* Properties of evaluate_naive
\* ------------------------------------------------------------------------

\* an evaluate_naive call is running or has returned
InNaive == pc \in {"naive_loop", "naive_rules"} \/ result.tag \in {"Ok", "Err"}

\* an evaluate_priority_once call is running or has returned
InPriority == pc = "priority_rules" \/ result.tag = "Filled"

\* a propagator whose fire is a function of the Table alone
Deterministic(rule) == rule.func.op # "alt"

\* every order of a propagator list
Orders(rls) ==
    LET n == Len(rls)
    IN  {[i \in 1..n |-> rls[f[i]]] :
            f \in {g \in [1..n -> 1..n] : \A i, j \in 1..n : i # j => g[i] # g[j]}}

\* the number of fires of the propagators 1..n
RECURSIVE SumFires(_, _)
SumFires(f, n) == IF n = 0 THEN 0 ELSE f[n] + SumFires(f, n - 1)

\* the Table after n full passes
RECURSIVE after_passes(_, _, _, _)
after_passes(t, rls, n, done) ==
    IF n = 0
    THEN t
    ELSE after_passes(naive_pass([table |-> t, changes |-> 0, joined |-> FALSE],
                                 rls, 1, done).table,
                      rls, n - 1, done + 1)

\* C4: for deterministic propagators the Table evaluate_naive ends with when
\* it returns Ok is the same for every order of the propagator list.
NaiveOrderIndependent ==
    (pc = "done" /\ result.tag = "Ok" /\ \A i \in DOMAIN rules : Deterministic(rules[i]))
    => \A p \in Orders(rules) :
          LET r == evaluate_naive(table0, p, limit)
          IN  r.result.tag = "Ok" => TableContent(r.table) = TableContent(table)

\* evaluate_naive executes at most `limit` passes, so at most
\* limit * |rules| fires; it returns Ok in a pass without changes and Err
\* when the pass counter exceeds the limit.
NaiveBounded ==
    InNaive =>
        /\ iteration <= limit + 1
        /\ \A i \in DOMAIN rules : fires[i] <= limit
        /\ SumFires(fires, Len(rules)) <= limit * Len(rules)
        /\ result.tag = "Ok" =>
              (changes = 0 /\ iteration <= limit /\ result.n = iteration)
        /\ result.tag = "Err" => iteration = limit + 1
        /\ pc = "done" => result.tag \in {"Ok", "Err"}

\* how far a call of evaluate_naive has got: passes begun, then the position
\* in the pass
NaiveMeasure ==
    iteration * (Len(rules) + 3)
        + (IF pc = "naive_rules" THEN idx ELSE Len(rules) + 2)

\* every step of a running evaluate_naive gets further
NaiveProgress ==
    pc \in {"naive_loop", "naive_rules"} => NaiveMeasure' > NaiveMeasure

\* C5: evaluate_naive terminates: its passes and fires are bounded by the
\* limit, every step of it advances, and it ends in Ok (a pass without
\* changes) or Err (pass counter beyond the limit).
NaiveTerminatesWithinLimit ==
    /\ [](NaiveBounded /\ NaiveMeasure <= (limit + 2) * (Len(rules) + 3))
    /\ [][NaiveProgress]_vars

\* the bound of C5 is reached: every propagator fired in each of the
\* `limit` passes of a call that ended in Err
NaiveBoundReached ==
    /\ pc = "done" /\ result.tag = "Err"
    /\ limit >= 2 /\ Len(rules) >= 2
    /\ SumFires(fires, Len(rules)) = limit * Len(rules)

\* every call of evaluate_naive returns (checked under FairSpec)
NaiveTerminates == [](pc = "naive_loop" => <>(pc = "done"))

AlternatingRun ==
    /\ rules = <<RuleAlt>>
    /\ limit = 5
    /\ pc = "done"
    /\ result.tag \in {"Ok", "Err"}

\* C7 as stated: the alternating rule makes evaluate_naive return Err.
AlternatingDiverges == AlternatingRun => result.tag = "Err"

\* C7 amended: the alternating rule makes evaluate_naive return Ok after at
\* most three passes; once both values were joined the entry is a Conflict.
AlternatingConverges ==
    AlternatingRun =>
        /\ result.tag = "Ok"
        /\ result.n <= 3
        /\ result.n >= 2 => table[X].kind = "Conflict"

\* the alternating rule on an empty Table: Ok(3), the entry a Conflict
AlternatingEndsInConflict ==
    /\ AlternatingRun
    /\ table0 = Table_new
    /\ result = Ok(3)
    /\ table[X] = Conflict(IntV(1), IntV(2))

\* C8: on the divergence error the Table is the one of the end of pass
\* number `limit`: every propagator was fired `limit` times, no more.
NaiveErrKeepsLastPass ==
    (pc = "done" /\ result.tag = "Err")
    => /\ table = passTable
       /\ table = after_passes(table0, rules, limit, 0)
       /\ iteration = limit + 1
       /\ \A i \in DOMAIN rules : fires[i] = limit

\* a call ended in Err after two or more passes that changed the Table
DivergedAfterPasses ==
    /\ pc = "done" /\ result.tag = "Err"
    /\ limit >= 2 /\ Len(rules) >= 2
    /\ table # table0
    /\ table = passTable

\* ------------------------------------------------------------------------
\* Properties of evaluate_priority_once
\* ------------------------------------------------------------------------

\* C9: the first propagator that yields a value for an absent target wins,
\* later ones with that target are not fired, entries present before the
\* call are never modified.
PriorityFirstWins ==
    InPriority =>
        /\ \A k \in DOMAIN table0 : k \in DOMAIN table /\ table[k] = table0[k]
        /\ \A i \in DOMAIN rules :
              (fires[i] = 1 /\ rules[i].func.op = "const")
              => /\ table[rules[i].target] = rules[i].func.a
                 /\ \A j \in DOMAIN rules :
                       (j > i /\ rules[j].target = rules[i].target) => fires[j] = 0
        /\ (pc = "done" /\ table0 = Table_new /\ rules = <<RuleA, RuleB>>)
              => table[X] = IntV(1)
        /\ (pc = "done" /\ table0 = Table_new /\ rules = <<RuleB, RuleA>>)
              => table[X] = IntV(2)

\* order [B, A] on an empty Table: B wrote X, A was skipped
PriorityFirstWon ==
    /\ pc = "done" /\ InPriority
    /\ table0 = Table_new
    /\ rules = <<RuleB, RuleA>>
    /\ fires = <<1, 0>>
    /\ table[X] = IntV(2)

\* C10: evaluate_priority_once fires each propagator at most once, performs
\* no join and returns the number of entries it added to the Table.
PriorityCountsFills ==
    InPriority =>
        /\ \A i \in DOMAIN rules : fires[i] <= 1
        /\ joins = 0
        /\ changes = Cardinality(DOMAIN table \ DOMAIN table0)
        /\ pc = "done" => result = Filled(Cardinality(DOMAIN table \ DOMAIN table0))

\* a call filled an entry, skipped a propagator and fired one in vain
PriorityFilledSome ==
    /\ pc = "done" /\ InPriority
    /\ result.n >= 1
    /\ \E i \in DOMAIN rules : fires[i] = 0
    /\ \E i \in DOMAIN rules :
          fires[i] = 1 /\ rules[i].target \notin DOMAIN table

\* ------------------------------------------------------------------------
\* Conflict and Invalid in evaluate_naive
\* ------------------------------------------------------------------------

\* the scalar kinds of Variant
is_scalar(v) == v.kind \in {"String", "Date", "Instant", "Float", "Int"}

\* propagator i derives the scalar func.a whatever the Table holds, and the
\* Table handed to the call held another scalar under its target
Contradicts(i) ==
    /\ rules[i].func.op = "const"
    /\ is_scalar(rules[i].func.a)
    /\ rules[i].target \in DOMAIN table0
    /\ is_scalar(table0[rules[i].target])
    /\ ~equal_scalars(table0[rules[i].target], rules[i].func.a)

\* C11: an entry holding a scalar and a rule that unconditionally derives a
\* different scalar for it: once the rule was fired the entry is a Conflict
\* whose left side is the initial value, and after evaluate_naive with that
\* one rule it is exactly Conflict(initial, derived).
NaiveContradictionIsConflict ==
    InNaive =>
        \A i \in DOMAIN rules :
            (Contradicts(i) /\ fires[i] >= 1)
            => /\ table[rules[i].target].kind = "Conflict"
               /\ table[rules[i].target].left = table0[rules[i].target]
               /\ Len(rules) = 1
                    => table[rules[i].target] =
                         Conflict(table0[rules[i].target], rules[i].func.a)

\* X held 1, the one rule derives 2: evaluate_naive left Conflict(1, 2)
NaiveContradictionFound ==
    /\ pc = "done" /\ InNaive
    /\ table0 = Table1(X, IntV(1))
    /\ rules = <<RuleB>>
    /\ result.tag = "Ok"
    /\ table[X] = Conflict(IntV(1), IntV(2))

\* the join operations and the evaluations in one specification: a behaviour
\* is either a sequence of joins or one evaluation
InitJoinEval == Init \/ InitLattice

NextJoinEval ==
    \/ LatticeIdle /\ Next
    \/ EvalIdle /\ NextLattice

SpecJoinEval == InitJoinEval /\ [][NextJoinEval]_vars

\* this step is one turn of evaluate_naive's `for rule in rules`
NaiveRuleStep == pc = "naive_rules" /\ idx <= Len(rules) /\ idx' = idx + 1

\* a Conflict entry is left as it is by the step
ConflictEntryKept ==
    \A k \in DOMAIN table :
        (InNaive /\ table[k].kind = "Conflict")
        => (k \in DOMAIN table' /\ table'[k] = table[k])

\* C12: Conflict is absorbing: joining anything into a Conflict leaves it
\* unchanged and reports no change, joining a Conflict into a value that is
\* not a Conflict yields that Conflict, and an entry that is a Conflict is
\* not changed by any later step of evaluate_naive.
ConflictAbsorbing ==
    /\ [](lop = "join" /\ la.kind = "Conflict" => lres = la /\ ~lchanged)
    /\ [](lop = "join" /\ la.kind # "Conflict" /\ lb.kind = "Conflict"
            => lres = lb)
    /\ [][ConflictEntryKept]_vars

\* the first rule turned X into a Conflict in pass one, both rules were fired
\* on it again in pass two and evaluate_naive returned with it unchanged
ConflictStayed ==
    /\ pc = "done" /\ InNaive
    /\ table0 = Table1(X, IntV(1))
    /\ rules = <<RuleB, RuleA>>
    /\ fires = <<2, 2>>
    /\ table[X] = Conflict(IntV(1), IntV(2))

\* what the step's rule yields, and the entry it is joined into
StepOut == fire(rules[idx], table, fires[idx])
StepTarget == rules[idx].target

\* an Invalid entry takes the valid value the step's rule yields
InvalidEntryReplaced ==
    (NaiveRuleStep /\ StepOut # None /\ StepTarget \in DOMAIN table
       /\ table[StepTarget].kind = "Invalid" /\ Unwrap(StepOut).kind # "Invalid")
    => table'[StepTarget] = Unwrap(StepOut)

\* a valid entry is left as it is when the step's rule yields an Invalid
ValidEntryKept ==
    (NaiveRuleStep /\ StepOut # None /\ StepTarget \in DOMAIN table
       /\ table[StepTarget].kind # "Invalid" /\ Unwrap(StepOut).kind = "Invalid")
    => table'[StepTarget] = table[StepTarget]

\* C13 as stated: join(x, Invalid) = x for every x and join(Invalid, y) = y
\* for every y.
InvalidDominatedByAll ==
    /\ [](lop = "join" /\ lb.kind = "Invalid" => lres = la)
    /\ [](lop = "join" /\ la.kind = "Invalid" => lres = lb)
    /\ [][InvalidEntryReplaced /\ ValidEntryKept]_vars

\* C13 amended: join(x, Invalid) = x for every x, with no change reported,
\* and join(Invalid, y) = y for every y that is not itself an Invalid; in
\* evaluate_naive an Invalid entry takes the first valid value derived for it
\* and a valid entry is never replaced or conflicted by a later Invalid.
InvalidDominated ==
    /\ [](lop = "join" /\ lb.kind = "Invalid" => lres = la /\ ~lchanged)
    /\ [](lop = "join" /\ la.kind = "Invalid" /\ lb.kind # "Invalid"
            => lres = lb)
    /\ [][InvalidEntryReplaced /\ ValidEntryKept]_vars

\* X held an Invalid, the first rule replaced it by 1 and the Invalid the
\* second rule yields was joined into that 1 without changing it
InvalidGaveWay ==
    /\ pc = "done" /\ InNaive
    /\ table0 = Table1(X, Invalid("e0"))
    /\ rules = <<RuleA, RuleFail>>
    /\ fires = <<2, 2>>
    /\ table[X] = IntV(1)

\* neither Invalid nor Conflict
is_plain(v) == v.kind \notin {"Invalid", "Conflict"}

\* two scalars of one kind compare equal with ==; for Float that is the f64
\* comparison, under which NaN is unequal to every Float, itself included
same_scalar(a, b) ==
    /\ is_scalar(a) /\ a.kind = b.kind
    /\ IF a.kind = "Float" THEN f64_eq(a.f, b.f) ELSE a = b

\* C24: two values that are neither Invalid nor Conflict and are of
\* different kinds, or of one scalar kind with unequal values, join to
\* Conflict(a, b), the stored operand first, reported as changed; equal
\* scalars of one kind join to themselves, unchanged.
JoinConflictOrKeep ==
    (lop = "join" /\ is_plain(la) /\ is_plain(lb))
    => /\ la.kind # lb.kind => (lres = Conflict(la, lb) /\ lchanged)
       /\ (la.kind = lb.kind /\ is_scalar(la) /\ ~same_scalar(la, lb))
             => (lres = Conflict(la, lb) /\ lchanged)
       /\ same_scalar(la, lb) => (lres = la /\ ~lchanged)

\* an Int and a Float were joined into Conflict(Int, Float)
JoinedKindsConflict ==
    /\ lop = "join"
    /\ la = IntV(1) /\ lb = Float("1.5")
    /\ lres = Conflict(IntV(1), Float("1.5"))
    /\ lchanged

\* ------------------------------------------------------------------------
\* More properties of evaluate_naive and evaluate_priority_once
\* ------------------------------------------------------------------------

\* propagator j copies the entry propagator i, earlier in the list, writes
\* whatever the Table holds
ReadsEarlier(i, j) ==
    /\ i < j
    /\ rules[i].func.op = "const"
    /\ rules[j].func.op = "copy"
    /\ rules[j].dependencies = <<IdentPath_new(rules[i].target)>>

\* the first pass of evaluate_naive has fired all its rules
FirstPassOver == iteration = 1 /\ pc = "naive_rules" /\ idx > Len(rules)

\* C25: within one pass each propagator is fired against the Table as the
\* propagators before it in the same pass left it, not against the Table of
\* the start of the pass: a rule that reads the target of an earlier rule
\* sees that rule's output in the same pass.
NaiveSeesEarlierRules ==
    InNaive =>
        /\ \A i, j \in DOMAIN rules :
              (ReadsEarlier(i, j) /\ fires[j] >= 1)
              => rules[j].target \in DOMAIN table
        /\ (FirstPassOver /\ table0 = Table_new /\ rules = <<RuleSetY, RuleZY>>)
              => (Z \in DOMAIN table /\ table[Z] = Set({X}))
        /\ (FirstPassOver /\ table0 = Table_new /\ rules = <<RuleA, RuleYX>>)
              => (Y \in DOMAIN table /\ table[Y] = IntV(1))

\* Y was absent, the first rule wrote it and the second copied it to Z in
\* the very first pass
SawEarlierRule ==
    /\ InNaive /\ FirstPassOver
    /\ table0 = Table_new
    /\ rules = <<RuleSetY, RuleZY>>
    /\ fires = <<1, 1>>
    /\ Z \in DOMAIN table /\ table[Z] = Set({X})

\* C26: join_update returns true exactly when the value of the receiver
\* after the call differs from its value before the call: a Set join is
\* changed iff the union is strictly larger, Invalid joined with Invalid is
\* unchanged, a Table join is changed iff a key was added or the value of a
\* key changed.
JoinUpdateFlagExact ==
    lop = "join" =>
        /\ lchanged <=> Content(lres) # Content(la)
        /\ (la.kind = "Set" /\ lb.kind = "Set")
              => /\ lres.ids = la.ids \cup lb.ids
                 /\ lchanged <=> Cardinality(la.ids \cup lb.ids) > Cardinality(la.ids)
        /\ (la.kind = "Invalid" /\ lb.kind = "Invalid") => ~lchanged
        /\ (la.kind = "Table" /\ lb.kind = "Table")
              => (lchanged <=>
                    \/ DOMAIN lb.t \ DOMAIN la.t # {}
                    \/ \E k \in DOMAIN la.t : Content(lres.t[k]) # Content(la.t[k]))

\* a Set was joined with a Set it already contains: no change reported
JoinedSubsetUnchanged ==
    /\ lop = "join"
    /\ la = Set({X, Y}) /\ lb = Set({X})
    /\ lres = Set({X, Y})
    /\ ~lchanged

\* the number of the first pass from pass k on, and within lim, in which
\* evaluate_naive counts no change; 0 if there is none.  t is the Table
\* before pass k.
RECURSIVE first_quiet(_, _, _, _)
first_quiet(t, rls, k, lim) ==
    IF k > lim
    THEN 0
    ELSE LET st == naive_pass([table |-> t, changes |-> 0, joined |-> FALSE],
                              rls, 1, k - 1)
         IN  IF st.changes = 0 THEN k ELSE first_quiet(st.table, rls, k + 1, lim)

\* C27: evaluate_naive returns Ok(n) exactly when pass n is the first pass
\* without changes and n <= limit, the final pass counted: a Table at a
\* fixpoint gives Ok(1), total = price * qty gives Ok(2) and total = 30,
\* limit 0 gives Err without a fire, and every pass up to the limit changing
\* something gives Err, also when the Table has become a fixpoint.
NaiveOkAtFirstQuietPass ==
    (pc = "done" /\ result.tag \in {"Ok", "Err"}) =>
        LET n == first_quiet(table0, rules, 1, limit)
        IN  /\ n # 0 => result = Ok(n)
            /\ n = 0 => result.tag = "Err"
            /\ (limit >= 1 /\ first_quiet(table0, rules, 1, 1) = 1) => result = Ok(1)
            /\ (table0 = PriceQty /\ rules = <<RuleTotal>> /\ limit >= 2) =>
                  /\ result = Ok(2)
                  /\ Total \in DOMAIN table /\ table[Total] = IntV(30)
            /\ limit = 0 =>
                  /\ result.tag = "Err"
                  /\ \A i \in DOMAIN rules : fires[i] = 0
                  /\ table = table0

\* a call returned Err after a change in each of its passes, on a Table
\* that one more pass would not change
NaiveErrAtFixpoint ==
    /\ pc = "done" /\ result.tag = "Err"
    /\ limit >= 1
    /\ first_quiet(table0, rules, 1, limit) = 0
    /\ first_quiet(table, rules, limit + 1, limit + 1) = limit + 1

\* the height of an entry: absent, Invalid, a valid value, Conflict
rank(t, k) ==
    IF k \notin DOMAIN t THEN 0
    ELSE IF t[k].kind = "Invalid" THEN 1
    ELSE IF t[k].kind = "Conflict" THEN 3
    ELSE 2

\* the value w holds the valid value v: it is v, or a Conflict, or a Set or
\* Table that v is part of
absorbs(w, v) ==
    \/ w = v
    \/ w.kind = "Conflict"
    \/ w.kind = "Set" /\ v.kind = "Set" /\ v.ids \subseteq w.ids
    \/ /\ w.kind = "Table" /\ v.kind = "Table"
       /\ DOMAIN v.t \subseteq DOMAIN w.t

\* no step of evaluate_naive removes a key or lowers an entry; a turn of
\* `for rule in rules` leaves every entry but the target alone and stores the
\* join of the target's entry with the fired value
NaiveStepMonotone ==
    (InNaive /\ InNaive') =>
        /\ \A k \in DOMAIN table :
              k \in DOMAIN table' /\ rank(table', k) >= rank(table, k)
        /\ ~NaiveRuleStep => table' = table
        /\ (NaiveRuleStep /\ StepOut = None) => table' = table
        /\ (NaiveRuleStep /\ StepOut # None) =>
              /\ DOMAIN table' = DOMAIN table \cup {StepTarget}
              /\ \A k \in DOMAIN table : k # StepTarget => table'[k] = table[k]
              /\ table'[StepTarget] =
                    IF StepTarget \in DOMAIN table
                    THEN join(table[StepTarget], Unwrap(StepOut))
                    ELSE Unwrap(StepOut)

\* C28: evaluate_naive is monotone on the Table: no rule firing removes a
\* key, the target's entry becomes the join of its previous value with the
\* fired value, an entry only moves upward (absent, Invalid, valid value,
\* Conflict), and every valid entry of the initial Table is still there at
\* any time, unchanged or absorbed into a Conflict, a larger Set or Table.
NaiveMonotone ==
    /\ [][NaiveStepMonotone]_vars
    /\ [](InNaive =>
            \A k \in DOMAIN table0 :
               /\ k \in DOMAIN table
               /\ rank(table, k) >= rank(table0, k)
               /\ table0[k].kind # "Invalid" => absorbs(table[k], table0[k]))

\* a call returned after an absent entry was written, an Invalid of the
\* initial Table gave way to a value or a value of it went into a Conflict
NaiveMovedUp ==
    /\ pc = "done" /\ InNaive
    /\ \E k \in DOMAIN table0 :
          /\ k \in DOMAIN table
          /\ rank(table, k) > rank(table0, k)
    /\ \E k \in DOMAIN table : k \notin DOMAIN table0

\* the propagator yields nothing but scalars and Invalids
yields_scalar(rule) ==
    \/ rule.func.op = "const" /\ (is_scalar(rule.func.a) \/ rule.func.a.kind = "Invalid")
    \/ rule.func.op = "alt" /\ is_scalar(rule.func.a) /\ is_scalar(rule.func.b)
    \/ rule.func.op \in {"copy_int", "mul"}

ScalarRules(rls) == \A i \in DOMAIN rls : yields_scalar(rls[i])

\* the number of distinct targets of a propagator list
Targets(rls) == Cardinality({rls[i].target : i \in DOMAIN rls})

\* a turn of `for rule in rules` that changes the target's entry raises it
\* one or more of the steps absent, Invalid, value, Conflict
ScalarStepRaises ==
    (NaiveRuleStep /\ ScalarRules(rules) /\ table' # table)
    => rank(table', StepTarget) > rank(table, StepTarget)

\* C29: with propagators that yield only scalars and Invalids every change
\* of a target's entry raises it along absent, Invalid, value, Conflict, at
\* most three times, and evaluate_naive returns Ok whenever
\* limit >= 3 * (number of distinct targets) + 1.
NaiveScalarConverges ==
    /\ [][ScalarStepRaises]_vars
    /\ []((pc = "done" /\ InNaive /\ ScalarRules(rules)
             /\ limit >= 3 * Targets(rules) + 1)
          => result.tag = "Ok")
    /\ []((pc = "done" /\ InNaive /\ ScalarRules(rules))
          => evaluate_naive(table0, rules, 3 * Targets(rules) + 1).result.tag = "Ok")

\* a call with one target and limit 4 or more returned Ok after the entry
\* went from Invalid to a value and on to a Conflict
ScalarEntryClimbed ==
    /\ pc = "done" /\ InNaive /\ result.tag = "Ok"
    /\ ScalarRules(rules) /\ Targets(rules) = 1
    /\ limit >= 3 * Targets(rules) + 1
    /\ \E k \in DOMAIN table0 :
          /\ rank(table0, k) = 1
          /\ rank(table, k) = 3
    /\ result.n = 3

\* this step is one turn of evaluate_priority_once's `for rule in rules`
PriorityRuleStep == pc = "priority_rules" /\ idx <= Len(rules) /\ idx' = idx + 1

\* a turn whose target holds any value, an Invalid included, fires nothing
\* and leaves the Table and the count alone
PriorityFilledSkipped ==
    (PriorityRuleStep /\ StepTarget \in DOMAIN table)
    => /\ fires' = fires
       /\ table' = table
       /\ changes' = changes

\* an entry that holds an Invalid keeps it through every step of the call
PriorityInvalidEntryKept ==
    \A k \in DOMAIN table :
        (InPriority /\ InPriority' /\ table[k].kind = "Invalid")
        => (k \in DOMAIN table' /\ table'[k] = table[k])

\* C30: in evaluate_priority_once any value stored under a target counts as
\* filled, an Invalid written earlier in the same call included: every later
\* propagator with that target is skipped without being fired, so the
\* Invalid is not healed by a later rule that would succeed.
PriorityInvalidStays ==
    /\ [][PriorityFilledSkipped /\ PriorityInvalidEntryKept]_vars
    /\ [](InPriority =>
            /\ \A i \in DOMAIN rules :
                  (fires[i] = 1 /\ rules[i].func.op = "const"
                     /\ rules[i].func.a.kind = "Invalid")
                  => /\ rules[i].target \in DOMAIN table
                     /\ table[rules[i].target] = rules[i].func.a
                     /\ \A j \in DOMAIN rules :
                           (j > i /\ rules[j].target = rules[i].target)
                           => fires[j] = 0
            /\ (pc = "done" /\ table0 = Table_new /\ rules = <<RuleFail, RuleA>>)
                  => /\ X \in DOMAIN table /\ table[X] = Invalid("e1")
                     /\ fires = <<1, 0>>
                     /\ result = Filled(1))

\* order [Fail, A] on an empty Table: the failing rule wrote an Invalid under
\* X and A, which yields 1, was skipped
PriorityInvalidKept ==
    /\ pc = "done" /\ InPriority
    /\ table0 = Table_new
    /\ rules = <<RuleFail, RuleA>>
    /\ fires = <<1, 0>>
    /\ X \in DOMAIN table /\ table[X] = Invalid("e1")

\* ------------------------------------------------------------------------
\* Ident: equality, Table lookup and serialization (src/table.rs)
\* ------------------------------------------------------------------------

\* #[derive(PartialEq, Eq, Hash)] on enum Ident: two Idents are equal, and
\* hash alike, when they are the same variant holding equal payloads
Ident_eq(a, b) == a = b

\* the two Idents represent the same name
same_name(a, b) ==
    IF a.tag = "Anonymous" \/ b.tag = "Anonymous"
    THEN a.tag = b.tag /\ a.num = b.num
    ELSE a.name = b.name

\* enum ExternalIdent, #[serde(untagged)]
ExternalIdent_NonIntern(s) == [ext |-> "NonIntern", text |-> s]
ExternalIdent_Anonymous(n) == [ext |-> "Anonymous", number |-> n]

\* impl Serialize for Ident
Ident_serialize(i) ==
    IF i.tag = "NonIntern" THEN ExternalIdent_NonIntern(i.name)
    ELSE IF i.tag = "Intern" THEN ExternalIdent_NonIntern(i.name)
    ELSE ExternalIdent_Anonymous(i.num)

\* impl Deserialize for Ident
Ident_deserialize(x) ==
    IF x.ext = "NonIntern" THEN NonIntern(x.text) ELSE Anonymous(x.number)

\* the Idents handed to the calls
Idents ==
    {Intern("x"), NonIntern("x"), Intern("y"), NonIntern("y"),
     Anonymous(1), Anonymous(2)}

\* insert under one Ident, get under another
LookupCalls ==
    {[op |-> "lookup", stored |-> s, asked |-> a, tbl |-> Table_new,
      step |-> "new", found |-> None] : s \in Idents, a \in Idents}

\* serialize an Ident and deserialize what was written
SerdeCalls ==
    {[op |-> "serde", ident |-> i, step |-> "new"] : i \in Idents}

\* table.insert(stored, 1)
IdentInsert ==
    /\ call.op = "lookup" /\ call.step = "new"
    /\ call' = [call EXCEPT !.tbl = Table_insert(call.tbl, call.stored, IntV(1)),
                            !.step = "inserted"]
    /\ UNCHANGED <<evalVars, latticeVars>>

\* table.get(&asked)
IdentGet ==
    /\ call.op = "lookup" /\ call.step = "inserted"
    /\ call' = [call EXCEPT !.found = Table_get(call.tbl, call.asked),
                            !.step = "got"]
    /\ UNCHANGED <<evalVars, latticeVars>>

\* ident.serialize(serializer)
IdentSerialize ==
    /\ call.op = "serde" /\ call.step = "new"
    /\ call' = [op |-> "serde", ident |-> call.ident, step |-> "serialized",
                written |-> Ident_serialize(call.ident)]
    /\ UNCHANGED <<evalVars, latticeVars>>

\* Ident::deserialize(deserializer)
IdentDeserialize ==
    /\ call.op = "serde" /\ call.step = "serialized"
    /\ call' = [op |-> "serde", ident |-> call.ident, step |-> "deserialized",
                written |-> call.written,
                back |-> Ident_deserialize(call.written)]
    /\ UNCHANGED <<evalVars, latticeVars>>

\* C14: Ident equality and hashing are by the represented name whatever the
\* variant: an interned and a non-interned Ident holding the same text are
\* equal, and an entry inserted under one form is found under the other.
IdentEqualByName ==
    (call.op = "lookup" /\ same_name(call.stored, call.asked))
    => /\ Ident_eq(call.stored, call.asked)
       /\ call.step = "got" => call.found = Some(IntV(1))

\* C15: serializing an Ident and deserializing the result yields an Ident
\* equal to the original; an interned Ident comes back non-interned.
IdentRoundTrip ==
    (call.op = "serde" /\ call.step = "deserialized")
    => /\ Ident_eq(call.back, call.ident)
       /\ call.back.tag # "Intern"

\* ------------------------------------------------------------------------
\* Table join (src/table.rs)
\* ------------------------------------------------------------------------

\* the Tables handed to Table::join_update
JoinTables ==
    {Table_new,
     Table1(X, IntV(1)),
     Table1(X, IntV(2)),
     Table2(X, IntV(1), Y, String("A")),
     Table2(X, IntV(2), Z, Invalid("e1")),
     Table2(Y, Set({X}), Z, IntV(3)),
     Table2(Y, Set({Y}), Z, Float(NaN)),
     Table2(Y, String("A"), Z, Float(NaN)),
     Table1(Y, Table(1, Table1(X, IntV(1)))),
     Table1(Y, Table(2, Table2(X, IntV(2), Z, IntV(3))))}

\* t1.join_update(t2)
TableJoinCalls ==
    {[op |-> "table_join", t1 |-> a, t2 |-> b, step |-> "new", tbl |-> a,
      modified |-> FALSE] : a \in JoinTables, b \in JoinTables}

\* impl Lattice for Table: self.join_update(other)
TableJoin ==
    /\ call.op = "table_join" /\ call.step = "new"
    /\ LET r == Table_join_update(call.t1, call.t2)
       IN  call' = [call EXCEPT !.tbl = r.v, !.modified = r.changed,
                                !.step = "joined"]
    /\ UNCHANGED <<evalVars, latticeVars>>

\* C16: the join of two Tables t1 and t2 has the union of their keys; a key
\* found in one operand alone keeps that operand's value, a key found in
\* both holds the Variant join of the two values with t1's value on the
\* left (two different scalars give Conflict(t1's, t2's)).
TableJoinKeywise ==
    (call.op = "table_join" /\ call.step = "joined")
    => /\ DOMAIN call.tbl = DOMAIN call.t1 \cup DOMAIN call.t2
       /\ \A k \in DOMAIN call.t1 \ DOMAIN call.t2 : call.tbl[k] = call.t1[k]
       /\ \A k \in DOMAIN call.t2 \ DOMAIN call.t1 : call.tbl[k] = call.t2[k]
       /\ \A k \in DOMAIN call.t1 \cap DOMAIN call.t2 :
             /\ call.tbl[k] = join(call.t1[k], call.t2[k])
             /\ (is_scalar(call.t1[k]) /\ is_scalar(call.t2[k])
                   /\ ~equal_scalars(call.t1[k], call.t2[k]))
                => call.tbl[k] = Conflict(call.t1[k], call.t2[k])

\* a join with a key in t1 alone, a key in t2 alone and a key in both
TableJoinedThreeWays ==
    /\ call.op = "table_join" /\ call.step = "joined"
    /\ call.t1 = Table2(X, IntV(1), Y, String("A"))
    /\ call.t2 = Table2(X, IntV(2), Z, Invalid("e1"))
    /\ call.tbl[X] = Conflict(IntV(1), IntV(2))
    /\ call.tbl[Y] = String("A")
    /\ call.tbl[Z] = Invalid("e1")
    /\ call.modified

\* ------------------------------------------------------------------------
\* Table::get_path (src/table.rs)
\* ------------------------------------------------------------------------

Customer == Intern("customer")
Address  == Intern("address")
City     == Intern("city")
Missing  == Intern("missing")

\* customer / address / city holds "X"
NestedFull ==
    Table1(Customer, Table(1, Table1(Address, Table(2, Table1(City, String("X"))))))

\* the Tables handed to get_path
PathTables ==
    {Table_new,
     NestedFull,
     \* customer / address is not a Table
     Table1(Customer, Table(1, Table2(Address, String("A"), City, String("Y")))),
     \* customer / address holds no city
     Table1(Customer, Table(1, Table1(Address, Table(2, Table1(Missing, IntV(1)))))),
     \* customer is not a Table
     Table2(Customer, String("A"), City, String("Z"))}

PathIdents == {Customer, Address, City, Missing}

\* the IdentPaths of one, two and three Idents
Paths ==
    {IdentPath_new(a) : a \in PathIdents}
    \cup {IdentPath_append(IdentPath_new(a), b) : a \in PathIdents, b \in PathIdents}
    \cup {IdentPath_append(IdentPath_append(IdentPath_new(a), b), c) :
            a \in PathIdents, b \in PathIdents, c \in PathIdents}

GetPathCalls ==
    {[op |-> "get_path", tbl |-> t, path |-> p, step |-> "new", found |-> None] :
        t \in PathTables, p \in Paths}

\* table.get_path(&path)
GetPath ==
    /\ call.op = "get_path" /\ call.step = "new"
    /\ call' = [call EXCEPT !.found = Table_get_path(call.tbl, call.path),
                            !.step = "got"]
    /\ UNCHANGED <<evalVars, latticeVars>>

\* the entry k of Table t is a nested Table
nested_at(t, k) == k \in DOMAIN t /\ t[k].kind = "Table"

\* C17: get_path follows the prefix through nested Tables and returns the
\* subject's entry of the last Table reached; when an entry of the prefix is
\* absent or is not a Table, or the subject is absent, it returns None.
\* customer/address/city on the nested Table gives "X", customer/missing/city
\* gives None.
GetPathWalksPrefix ==
    (call.op = "get_path" /\ call.step = "got")
    => LET t == call.tbl
           p == call.path.prefix
           s == call.path.subject
       IN  /\ Len(p) = 0 =>
                call.found = (IF s \in DOMAIN t THEN {t[s]} ELSE {})
           /\ Len(p) = 1 =>
                call.found = (IF nested_at(t, p[1]) /\ s \in DOMAIN t[p[1]].t
                              THEN {t[p[1]].t[s]} ELSE {})
           /\ Len(p) = 2 =>
                call.found = (IF /\ nested_at(t, p[1])
                                 /\ nested_at(t[p[1]].t, p[2])
                                 /\ s \in DOMAIN t[p[1]].t[p[2]].t
                              THEN {t[p[1]].t[p[2]].t[s]} ELSE {})
           /\ (t = NestedFull /\ p = <<Customer, Address>> /\ s = City)
                => call.found = {String("X")}
           /\ (t = NestedFull /\ p = <<Customer, Missing>> /\ s = City)
                => call.found = {}

\* customer/address/city was resolved through two nested Tables
GetPathReachedCity ==
    /\ call.op = "get_path" /\ call.step = "got"
    /\ call.tbl = NestedFull
    /\ call.path.prefix = <<Customer, Address>>
    /\ call.path.subject = City
    /\ call.found = Some(String("X"))

\* ------------------------------------------------------------------------
\* Typed properties, paths and rules (src/property.rs, src/rule.rs)
\* ------------------------------------------------------------------------

\* a value of a rule-level type: an i64, a u32 or a String
Typed_i64(n) == [ty |-> "i64", int |-> n]
Typed_u32(n) == [ty |-> "u32", int |-> n]
Typed_String(s) == [ty |-> "String", str |-> s]

\* TryFrom<Variant> with no check of the range: every Int becomes a u32
try_into_wrapping(v, ty) ==
    IF ty = "i64" THEN (IF v.kind = "Int" THEN Some(Typed_i64(v.i)) ELSE None)
    ELSE IF ty = "u32" THEN (IF v.kind = "Int" THEN Some(Typed_u32(v.i)) ELSE None)
    ELSE (IF v.kind = "String" THEN Some(Typed_String(v.s)) ELSE None)

\* value.try_into().ok(): TryFrom<Variant> derived for the payload of each
\* kind (i64 from Int, String from String) and written out for u32 (an i64
\* that is then range-checked; the values of the model stay below u32::MAX)
try_into(v, ty) ==
    IF ty = "i64" THEN (IF v.kind = "Int" THEN Some(Typed_i64(v.i)) ELSE None)
    ELSE IF ty = "u32"
    THEN (IF v.kind = "Int" /\ v.i >= 0 THEN Some(Typed_u32(v.i)) ELSE None)
    ELSE (IF v.kind = "String" THEN Some(Typed_String(v.s)) ELSE None)

\* Into<Variant>: From<i64>, From<u32> (value as i64), From<String>
into(x) == IF x.ty = "String" THEN String(x.str) ELSE IntV(x.int)

\* Property<A>: a name and the type A
Property(name, ty) == [name |-> name, ty |-> ty]

\* Path<A>: a prefix of Idents and the subject Property<A>
Path(prefix, subject) == [prefix |-> prefix, subject |-> subject]

\* the IdentPath of a Path: its prefix and the name of its subject
ident_path(path) == [prefix |-> path.prefix, subject |-> path.subject.name]

\* impl PropOrPath<A> for Property<A>: extract
Property_extract(prop, tbl) ==
    LET v == Table_get(tbl, prop.name)
    IN  IF v = None THEN None ELSE try_into(Unwrap(v), prop.ty)

\* impl PropOrPath<A> for Path<A>: extract
Path_extract(path, tbl) ==
    LET last == walk_prefix(tbl, path.prefix)
    IN  IF last = None THEN None ELSE Property_extract(path.subject, Unwrap(last))

\* path.query(state): resolve the Path, then attempt the conversion to its
\* type; an absent entry and a failed conversion both give None
query(path, state) == Path_extract(path, state)

\* struct Rule { output, input, func }
Rule(output, input, func) == [output |-> output, input |-> input, func |-> func]

\* FuncOptional(f), FuncFallible(f): f is named by what its body does
FuncOptional(body) == [kind |-> "optional", body |-> body]
FuncFallible(body) == [kind |-> "fallible", body |-> body]

\* the number an argument contributes to the sum a rule function computes
arg_int(args, i) ==
    IF i \in DOMAIN args /\ args[i].ty \in {"i64", "u32"} THEN args[i].int ELSE 0

\* the rule functions, applied to the converted dependency values:
\*   none     : None, Ok(None)
\*   some     : Some(n), Ok(Some(n)), n one more than the sum of the numbers
\*   some_str : Some("S"), Ok(Some("S"))
\*   err      : Err(Error::Detail("e1"))
rule_func(body, args) ==
    IF body = "none" THEN [r |-> "None"]
    ELSE IF body = "some"
    THEN [r |-> "Some",
          x |-> Typed_i64(1 + arg_int(args, 1) + arg_int(args, 2) + arg_int(args, 3))]
    ELSE IF body = "some_str" THEN [r |-> "Some", x |-> Typed_String("S")]
    ELSE [r |-> "Err", e |-> "e1"]

\* what fire returns, and whether the rule function was invoked
Fired(out, invoked) == [out |-> out, invoked |-> invoked]

\* fire of the FuncOptional rules of arity 1, 2 and 3:
\* Some((self.func.0)(self.input.query(state)?)?.into())
Rule_fire_optional(rule, state) ==
    LET q == [i \in DOMAIN rule.input |-> query(rule.input[i], state)]
    IN  IF \E i \in DOMAIN q : q[i] = None
        THEN Fired(None, FALSE)
        ELSE LET r == rule_func(rule.func.body, [i \in DOMAIN q |-> Unwrap(q[i])])
             IN  IF r.r = "None" THEN Fired(None, TRUE)
                 ELSE Fired(Some(into(r.x)), TRUE)

\* fire of the fallible rule that loses the error: Err(e) gives None
Rule_fire_fallible_silent(rule, state) ==
    LET q == query(rule.input[1], state)
    IN  IF q = None
        THEN Fired(None, FALSE)
        ELSE LET r == rule_func(rule.func.body, <<Unwrap(q)>>)
             IN  IF r.r = "Some" THEN Fired(Some(into(r.x)), TRUE)
                 ELSE Fired(None, TRUE)

\* fire of the FuncFallible rule of arity 1
Rule_fire_fallible(rule, state) ==
    LET q == query(rule.input[1], state)
    IN  IF q = None
        THEN Fired(None, FALSE)
        ELSE LET r == rule_func(rule.func.body, <<Unwrap(q)>>)
             IN  IF r.r = "Some" THEN Fired(Some(into(r.x)), TRUE)
                 ELSE IF r.r = "None" THEN Fired(None, TRUE)
                 ELSE Fired(Some(Invalid(r.e)), TRUE)

\* Propagator::fire of a Box<dyn Propagator> built from a Rule
Rule_fire(rule, state) ==
    IF rule.func.kind = "fallible"
    THEN Rule_fire_fallible(rule, state)
    ELSE Rule_fire_optional(rule, state)

\* the Tables handed to fire
FireTables ==
    {Table_new,
     Table1(X, IntV(1)),
     Table1(X, IntV(-1)),
     Table1(X, String("A")),
     Table1(X, Invalid("e0")),
     Table2(X, IntV(1), Y, IntV(2)),
     Table2(X, IntV(2), Y, Float(NaN)),
     [k \in {X, Y, Z} |-> IF k = X THEN IntV(1) ELSE IF k = Y THEN IntV(2) ELSE IntV(3)],
     [k \in {X, Y, Z} |-> IF k = X THEN IntV(-1) ELSE IF k = Y THEN String("A") ELSE IntV(3)],
     Table2(X, String("A"), Y, Table(1, Table1(X, IntV(4))))}

\* the dependency paths of the rules
FirePaths ==
    {Path(<< >>, Property(X, "i64")),
     Path(<< >>, Property(X, "u32")),
     Path(<< >>, Property(X, "String")),
     Path(<< >>, Property(Y, "i64")),
     Path(<< >>, Property(Z, "i64")),
     Path(<<Y>>, Property(X, "i64"))}

\* one, two or three dependencies
FireInputs ==
    UNION {[1..n -> FirePaths] : n \in {1, 2, 3}}

\* the Property a rule infers: its type is the one the function returns
FireOutput(body) ==
    IF body = "some_str" THEN Property(Z, "String") ELSE Property(Z, "i64")

\* infer(z).from(..)...rule(f) and infer(z).from(..).rule_fallible(f)
FireRules ==
    {Rule(FireOutput(b), inp, FuncOptional(b)) :
        inp \in FireInputs, b \in {"none", "some", "some_str"}}
    \cup
    {Rule(FireOutput(b), inp, FuncFallible(b)) :
        inp \in [1..1 -> FirePaths], b \in {"none", "some", "some_str", "err"}}

FireCalls ==
    {[op |-> "fire", rule |-> r, tbl |-> t, step |-> "new",
      out |-> None, invoked |-> FALSE] : r \in FireRules, t \in FireTables}

\* rule.fire(&table)
Fire ==
    /\ call.op = "fire" /\ call.step = "new"
    /\ LET f == Rule_fire(call.rule, call.tbl)
       IN  call' = [call EXCEPT !.out = f.out, !.invoked = f.invoked,
                                !.step = "fired"]
    /\ UNCHANGED <<evalVars, latticeVars>>

\* the entry a dependency path of at most two Idents leads to in Table t:
\* a set holding the entry, or nothing
entry_at(t, path) ==
    LET name == path.subject.name
    IN  IF path.prefix = << >>
        THEN (IF name \in DOMAIN t THEN {t[name]} ELSE {})
        ELSE LET p == path.prefix[1]
             IN  IF p \in DOMAIN t /\ t[p].kind = "Table" /\ name \in DOMAIN t[p].t
                 THEN {t[p].t[name]}
                 ELSE {}

\* the Variant is of the kind the type ty is stored as
of_type(v, ty) ==
    \/ ty = "i64" /\ v.kind = "Int"
    \/ ty = "u32" /\ v.kind = "Int" /\ v.i >= 0
    \/ ty = "String" /\ v.kind = "String"

\* the dependency resolves in t and its entry converts to the declared type
available(t, path) == \E v \in entry_at(t, path) : of_type(v, path.subject.ty)

\* C18: a rule built with infer/from/rule invokes its function only when
\* every declared dependency resolves and converts to its declared type;
\* when a dependency's entry is absent, is not reachable through its path or
\* holds a value of another kind, fire returns None and the function is not
\* invoked.
FireNeedsEveryDependency ==
    (call.op = "fire" /\ call.step = "fired")
    => /\ call.invoked <=>
             \A i \in DOMAIN call.rule.input : available(call.tbl, call.rule.input[i])
       /\ ~call.invoked => call.out = None

\* two of three dependencies resolve, the third holds a String where an i64
\* is declared: the function was not invoked and fire returned None
FireHeldBack ==
    /\ call.op = "fire" /\ call.step = "fired"
    /\ call.rule.func = FuncOptional("some")
    /\ call.rule.input = <<Path(<< >>, Property(X, "i64")),
                           Path(<< >>, Property(Y, "i64")),
                           Path(<< >>, Property(Z, "i64"))>>
    /\ X \in DOMAIN call.tbl /\ call.tbl[X] = IntV(-1)
    /\ Y \in DOMAIN call.tbl /\ call.tbl[Y] = String("A")
    /\ Z \in DOMAIN call.tbl /\ call.tbl[Z] = IntV(3)
    /\ ~call.invoked
    /\ call.out = None

\* the number dependency i of the call's rule holds in the call's Table
dep_int(i) ==
    IF i \in DOMAIN call.rule.input /\ call.rule.input[i].subject.ty \in {"i64", "u32"}
    THEN (CHOOSE v \in entry_at(call.tbl, call.rule.input[i]) : TRUE).i
    ELSE 0

\* C19: fire maps the result of the rule function: None and Ok(None) give no
\* value, Err(e) of a fallible rule gives Some(Invalid(e)), Some(x) and
\* Ok(Some(x)) give Some of x converted into a Variant.
FireMapsResult ==
    (call.op = "fire" /\ call.step = "fired" /\ call.invoked)
    => LET body == call.rule.func.body
       IN  /\ body = "none" => call.out = None
           /\ body = "some" =>
                call.out = {IntV(1 + dep_int(1) + dep_int(2) + dep_int(3))}
           /\ body = "some_str" => call.out = {String("S")}
           /\ body = "err" => call.out = {Invalid("e1")}

\* a fallible rule whose function returned Err(e1): fire gave Invalid(e1)
FireGaveInvalid ==
    /\ call.op = "fire" /\ call.step = "fired"
    /\ call.rule.func = FuncFallible("err")
    /\ call.invoked
    /\ call.out = Some(Invalid("e1"))

\* ------------------------------------------------------------------------
\* The rule builder: infer(p).from(path)...rule(f) (src/rule.rs)
\* ------------------------------------------------------------------------

\* the `()` in the place of a function that was not given yet
NoFunc == [kind |-> "unit"]

\* infer(prop)
infer(prop) == Rule(prop, << >>, NoFunc)

\* .from(path): the 1st, 2nd or 3rd dependency
Rule_from(rule, path) == Rule(rule.output, Append(rule.input, path), NoFunc)

\* .rule(func)
Rule_rule(rule, body) == Rule(rule.output, rule.input, FuncOptional(body))

\* .rule_fallible(func)
Rule_rule_fallible(rule, body) == Rule(rule.output, rule.input, FuncFallible(body))

\* Propagator::target of the four impls: &self.output.name
Rule_target(rule) == rule.output.name

\* Propagator::dependencies of the four impls
Rule_dependencies(rule) ==
    IF rule.func.kind = "fallible" THEN <<ident_path(rule.input[1])>>
    ELSE IF Len(rule.input) = 1 THEN << >>
    ELSE IF Len(rule.input) = 2
    THEN <<ident_path(rule.input[1]), ident_path(rule.input[2])>>
    ELSE <<ident_path(rule.input[1]), ident_path(rule.input[2]),
           ident_path(rule.input[3])>>

\* a Property to infer and the paths to declare, in order
BuildCalls ==
    {[op |-> "build", prop |-> p, froms |-> f, step |-> "new"] :
        p \in {Property(Z, "i64"), Property(X, "i64")}, f \in FireInputs}

\* infer(&prop)
BuildInfer ==
    /\ call.op = "build" /\ call.step = "new"
    /\ call' = [op |-> "build", prop |-> call.prop, froms |-> call.froms,
                step |-> "head", rule |-> infer(call.prop)]
    /\ UNCHANGED <<evalVars, latticeVars>>

\* .from(path) with the next path
BuildFrom ==
    /\ call.op = "build" /\ call.step = "head"
    /\ Len(call.rule.input) < Len(call.froms)
    /\ call' = [call EXCEPT !.rule =
                   Rule_from(call.rule, call.froms[Len(call.rule.input) + 1])]
    /\ UNCHANGED <<evalVars, latticeVars>>

\* .rule(f), once every path was declared
BuildRule ==
    /\ call.op = "build" /\ call.step = "head"
    /\ Len(call.rule.input) = Len(call.froms)
    /\ call' = [call EXCEPT !.rule = Rule_rule(call.rule, "some"),
                            !.step = "built"]
    /\ UNCHANGED <<evalVars, latticeVars>>

\* .rule_fallible(f): defined for one dependency only
BuildRuleFallible ==
    /\ call.op = "build" /\ call.step = "head"
    /\ Len(call.rule.input) = Len(call.froms)
    /\ Len(call.rule.input) = 1
    /\ call' = [call EXCEPT !.rule = Rule_rule_fallible(call.rule, "some"),
                            !.step = "built"]
    /\ UNCHANGED <<evalVars, latticeVars>>

\* propagator.dependencies() and propagator.target()
BuildInspect ==
    /\ call.op = "build" /\ call.step = "built"
    /\ call' = [op |-> "build", prop |-> call.prop, froms |-> call.froms,
                step |-> "inspected", rule |-> call.rule,
                deps |-> Rule_dependencies(call.rule),
                target |-> Rule_target(call.rule)]
    /\ UNCHANGED <<evalVars, latticeVars>>

\* C20: for a Propagator built by infer(p), k calls of from (k = 1, 2, 3)
\* and rule or rule_fallible, dependencies() returns exactly the k declared
\* paths in the order of declaration and target() returns the Ident of p.
BuilderKeepsDependencies ==
    (call.op = "build" /\ call.step = "inspected")
    => /\ call.deps = [i \in 1..Len(call.froms) |->
                         [prefix |-> call.froms[i].prefix,
                          subject |-> call.froms[i].subject.name]]
       /\ call.target = call.prop.name

\* ------------------------------------------------------------------------
\* Rc<Table>: the shared nested Table of Variant::Table (src/variant.rs).
\* A heap maps each allocation to its strong count and the Table it holds;
\* a handle is the allocation it points to.  Strong count 0: not allocated.
\* ------------------------------------------------------------------------

Allocs == {1, 2, 3}

RcBox(strong, t) == [strong |-> strong, t |-> t]

\* the first allocation not in use
fresh(heap) ==
    CHOOSE n \in Allocs :
        heap[n].strong = 0 /\ \A m \in Allocs : heap[m].strong = 0 => n <= m

\* Rc::clone: one more strong handle on the same allocation
Rc_clone(heap, h) ==
    [heap |-> [heap EXCEPT ![h].strong = @ + 1], h |-> h]

\* dropping a handle
Rc_drop(heap, h) == [heap EXCEPT ![h].strong = @ - 1]

\* Rc::ptr_eq
Rc_ptr_eq(a, b) == a = b

\* Rc::make_mut writing through the shared allocation: no copy is made
Rc_make_mut_in_place(heap, h) == [heap |-> heap, h |-> h]

\* Rc::make_mut: a handle that is not the only one gets a new allocation
\* holding a clone of the Table and lets go of the shared one
Rc_make_mut(heap, h) ==
    IF heap[h].strong = 1
    THEN [heap |-> heap, h |-> h]
    ELSE LET n == fresh(heap)
         IN  [heap |-> [heap EXCEPT ![h].strong = @ - 1,
                                    ![n] = RcBox(1, heap[h].t)],
              h |-> n]

\* Rc::unwrap_or_clone: the Table itself when the handle is the only one,
\* else a clone of it; the handle is consumed either way
Rc_unwrap_or_clone(heap, h) == [heap |-> Rc_drop(heap, h), t |-> heap[h].t]

\* join_update_tables(a: &mut Rc<Table>, b: Rc<Table>) on the heap: the new
\* heap, the allocation a points to afterwards and the flag returned
Rc_join_update_tables(heap, a, b) ==
    IF Rc_ptr_eq(a, b)
    THEN [heap |-> Rc_drop(heap, b), a |-> a, changed |-> FALSE]
    ELSE LET m == Rc_make_mut(heap, a)
             u == Rc_unwrap_or_clone(m.heap, b)
             r == Table_join_update(m.heap[m.h].t, u.t)
         IN  [heap |-> [u.heap EXCEPT ![m.h].t = r.v], a |-> m.h,
              changed |-> r.changed]

\* the Tables held by the allocations: scalar entries only
RcTables ==
    {Table_new,
     Table1(X, IntV(1)),
     Table1(X, IntV(2)),
     Table2(X, IntV(1), Y, String("A")),
     Table2(X, IntV(1), Y, Invalid("e1"))}

NotAllocated == RcBox(0, Table_new)

\* a Variant::Table a stored in an entry and a Variant::Table b to join into
\* it: b is another allocation, held by one handle or by two, or a clone of a
RcCalls ==
    {[op |-> "rc", heap |-> [n \in Allocs |-> IF n = 1 THEN RcBox(1, ta)
                                              ELSE IF n = 2 THEN RcBox(s, tb)
                                              ELSE NotAllocated],
      a |-> 1, b |-> 2, ws |-> << >>, step |-> "new", changed |-> FALSE,
      t0 |-> ta, tb0 |-> tb] :
        ta \in RcTables, tb \in RcTables, s \in {1, 2}}
    \cup
    {[op |-> "rc", heap |-> [n \in Allocs |-> IF n = 1 THEN RcBox(2, ta)
                                              ELSE NotAllocated],
      a |-> 1, b |-> 1, ws |-> << >>, step |-> "new", changed |-> FALSE,
      t0 |-> ta, tb0 |-> ta] : ta \in RcTables}

\* let w = v.clone(): another handle on a's Table, kept elsewhere
RcClone ==
    /\ call.op = "rc" /\ call.step = "new"
    /\ Len(call.ws) < 1
    /\ LET c == Rc_clone(call.heap, call.a)
       IN  call' = [call EXCEPT !.heap = c.heap, !.ws = Append(@, c.h)]
    /\ UNCHANGED <<evalVars, latticeVars>>

\* a.join_update(b) of the two Variant::Table values
RcJoin ==
    /\ call.op = "rc" /\ call.step = "new"
    /\ LET j == Rc_join_update_tables(call.heap, call.a, call.b)
       IN  call' = [call EXCEPT !.heap = j.heap, !.a = j.a,
                                !.changed = j.changed, !.step = "joined"]
    /\ UNCHANGED <<evalVars, latticeVars>>

\* joining tb into ta changes no entry of ta and adds none
adds_nothing(ta, tb) ==
    \A k \in DOMAIN tb : k \in DOMAIN ta /\ ~join_update(ta[k], tb[k]).changed

\* C21: joining into a nested Table value another Table value that adds
\* nothing reports no change and allocates no new nested Table: the stored
\* handle still points to the same shared Table object, also when other
\* handles alias that object.
RcNoChangeKeepsObject ==
    (call.op = "rc" /\ call.step = "joined" /\ adds_nothing(call.t0, call.tb0))
    => /\ ~call.changed
       /\ call.a = 1
       /\ \A n \in Allocs \ {1, 2} : call.heap[n].strong = 0

\* C22: a clone of a Table-kind Variant points to the same Table object as
\* the original, and a join that changes the nested Table through one handle
\* leaves the Table seen through every other handle of that object as it
\* was (copy on first write).
RcCopyOnWrite ==
    call.op = "rc" =>
        /\ \A i \in DOMAIN call.ws :
              /\ Rc_ptr_eq(call.ws[i], 1)
              /\ call.heap[call.ws[i]].strong >= 1
              /\ call.heap[call.ws[i]].t = call.t0
        /\ (call.step = "new" /\ call.ws # << >>)
              => call.heap[call.a].strong =
                    1 + Len(call.ws) + (IF Rc_ptr_eq(call.a, call.b) THEN 1 ELSE 0)
        /\ (call.step = "joined" /\ call.heap[2].strong >= 1)
              => call.heap[2].t = call.tb0

\* the joined Table changed while a clone was held: the stored handle moved
\* to a new Table object and the clone still sees the old Table
RcAliasKept ==
    /\ call.op = "rc" /\ call.step = "joined"
    /\ call.changed
    /\ call.ws = <<1>>
    /\ call.a = 3
    /\ call.heap[1].t = call.t0
    /\ call.heap[3].t # call.t0

\* ------------------------------------------------------------------------
\* Money: Display and FromStr (src/quantity/money.rs).  A text is the
\* sequence of its characters.
\* ------------------------------------------------------------------------

\* impl Currency for AUD
SYMBOL == "$"
PRECISION == 2
FACTOR == 10 ^ PRECISION

DigitChars == <<"0", "1", "2", "3", "4", "5", "6", "7", "8", "9">>

is_digit(ch) == \E d \in DOMAIN DigitChars : DigitChars[d] = ch

digit_value(ch) == (CHOOSE d \in DOMAIN DigitChars : DigitChars[d] = ch) - 1

\* the decimal digits of n >= 0
RECURSIVE to_digits(_)
to_digits(n) ==
    IF n < 10 THEN <<DigitChars[n + 1]>>
    ELSE to_digits(n \div 10) \o <<DigitChars[(n % 10) + 1]>>

\* `{:0w}`: the digits of n, zero-padded on the left to at least w characters
RECURSIVE zero_pad(_, _)
zero_pad(text, w) == IF Len(text) >= w THEN text ELSE zero_pad(<<"0">> \o text, w)

abs(n) == IF n < 0 THEN 0 - n ELSE n

\* Display for Money printing the magnitude only: the sign is lost
Money_fmt_unsigned(cents) ==
    LET magnitude == zero_pad(to_digits(abs(cents)), PRECISION + 1)
        split == Len(magnitude) - PRECISION
    IN  <<SYMBOL>> \o SubSeq(magnitude, 1, split) \o <<".">>
           \o SubSeq(magnitude, split + 1, Len(magnitude))

\* impl Display for Money<C>
Money_fmt(cents) ==
    LET sign == IF cents < 0 THEN <<"-">> ELSE << >>
        magnitude == zero_pad(to_digits(abs(cents)), PRECISION + 1)
        split == Len(magnitude) - PRECISION
    IN  sign \o <<SYMBOL>> \o SubSeq(magnitude, 1, split) \o <<".">>
           \o SubSeq(magnitude, split + 1, Len(magnitude))

\* what a parser returns: the rest of the input and what it recognised
Parsed(rest, v) == [rest |-> rest, v |-> v]

\* multispace0
RECURSIVE spaces(_)
spaces(input) ==
    IF input # << >> /\ Head(input) = " " THEN spaces(Tail(input)) ELSE input

\* opt(terminated(one_of("+-"), spaces))
opt_sign(input) ==
    IF input # << >> /\ Head(input) \in {"+", "-"}
    THEN Parsed(spaces(Tail(input)), Some(Head(input)))
    ELSE Parsed(input, None)

\* opt(terminated(tag(C::SYMBOL), spaces))
opt_symbol(input) ==
    IF input # << >> /\ Head(input) = SYMBOL
    THEN Parsed(spaces(Tail(input)), Some(SYMBOL))
    ELSE Parsed(input, None)

\* the longest prefix of digits
RECURSIVE digit_prefix(_)
digit_prefix(input) ==
    IF input # << >> /\ is_digit(Head(input))
    THEN <<Head(input)>> \o digit_prefix(Tail(input))
    ELSE << >>

\* opt(digit1)
opt_digits(input) ==
    LET ds == digit_prefix(input)
    IN  IF ds = << >> THEN Parsed(input, None)
        ELSE Parsed(SubSeq(input, Len(ds) + 1, Len(input)), Some(ds))

\* opt(preceded(tag("."), opt(digits)))
opt_frac(input) ==
    IF input # << >> /\ Head(input) = "."
    THEN LET d == opt_digits(Tail(input)) IN Parsed(d.rest, Some(d.v))
    ELSE Parsed(input, None)

\* x.parse::<i64>() of a text of digits
RECURSIVE parse_i64(_, _)
parse_i64(ds, acc) ==
    IF ds = << >> THEN acc
    ELSE parse_i64(Tail(ds), acc * 10 + digit_value(Head(ds)))

\* Result<Money<C>, Error>
MoneyOk(cents) == [ok |-> TRUE, cents |-> cents]
MoneyErr == [ok |-> FALSE]

\* the fraction scaled to PRECISION digits
scale_frac(x) ==
    LET frac == parse_i64(x, 0)
        prec == Len(x)
    IN  IF prec < PRECISION THEN frac * (10 ^ (PRECISION - prec))
        ELSE IF prec > PRECISION THEN frac \div (10 ^ (prec - PRECISION))
        ELSE frac

\* impl FromStr for Money<C>
Money_from_str(input) ==
    LET s1 == opt_sign(input)
        sy == opt_symbol(s1.rest)
        s2 == opt_sign(sy.rest)
        wh == opt_digits(s2.rest)
        fr == opt_frac(wh.rest)
        rest == spaces(fr.rest)
        whole == IF wh.v = None THEN 0 ELSE parse_i64(Unwrap(wh.v), 0) * FACTOR
        frac == IF fr.v = None \/ Unwrap(fr.v) = None THEN 0
                ELSE scale_frac(Unwrap(Unwrap(fr.v)))
        value == whole + frac
    IN  IF rest # << >> THEN MoneyErr
        ELSE IF (s1.v = Some("-") /\ s2.v = None) \/ (s1.v = None /\ s2.v = Some("-"))
        THEN MoneyOk(0 - value)
        ELSE IF s1.v = None /\ s2.v = None THEN MoneyOk(value)
        ELSE MoneyErr

\* Money::from_repr(cents) to format, then parse
MoneyReprCalls ==
    {[op |-> "money", src |-> "repr", cents |-> c, text |-> << >>, step |-> "new"] :
        c \in (0 - MaxCents)..MaxCents}

\* texts to parse with the amounts they stand for (test currency_parsing)
MoneyTexts ==
    {[text |-> <<"$", " ", "-", "1", "2", ".", "3", "4">>, cents |-> 0 - 1234],
     [text |-> <<"$", " ", "-", " ", ".", "3", "4">>, cents |-> 0 - 34],
     [text |-> <<".", "3", "4">>, cents |-> 34],
     [text |-> <<"3", "4">>, cents |-> 3400],
     [text |-> <<"3", "4", ".">>, cents |-> 3400],
     [text |-> <<"3", "4", ".", "1">>, cents |-> 3410]}

MoneyTextCalls ==
    {[op |-> "money", src |-> "text", cents |-> m.cents, text |-> m.text,
      step |-> "formatted"] : m \in MoneyTexts}

\* money.to_string()
MoneyFormat ==
    /\ call.op = "money" /\ call.step = "new"
    /\ call' = [call EXCEPT !.text = Money_fmt(call.cents), !.step = "formatted"]
    /\ UNCHANGED <<evalVars, latticeVars>>

\* text.parse::<Money<AUD>>()
MoneyParse ==
    /\ call.op = "money" /\ call.step = "formatted"
    /\ call' = [op |-> "money", src |-> call.src, cents |-> call.cents,
                text |-> call.text, step |-> "parsed",
                back |-> Money_from_str(call.text)]
    /\ UNCHANGED <<evalVars, latticeVars>>

\* C23: Money round-trips through its text: for every amount c in cents,
\* negative, zero or positive, parsing the formatted text of Money(c) gives
\* Money(c) again; 1234 is formatted as "$12.34" and "-$0.09" parses to -9.
MoneyRoundTrip ==
    call.op = "money" =>
        /\ call.step = "parsed" => call.back = MoneyOk(call.cents)
        /\ (call.src = "repr" /\ call.step # "new" /\ call.cents = 1234)
              => call.text = <<"$", "1", "2", ".", "3", "4">>
        /\ (call.step = "parsed" /\ call.text = <<"-", "$", "0", ".", "0", "9">>)
              => call.back = MoneyOk(0 - 9)

\* Money(-9) was formatted as "-$0.09" and parsed back to -9
MoneyNegativeCame ==
    /\ call.op = "money" /\ call.step = "parsed"
    /\ call.src = "repr"
    /\ call.cents = 0 - 9
    /\ call.text = <<"-", "$", "0", ".", "0", "9">>
    /\ call.back = MoneyOk(0 - 9)

\* ------------------------------------------------------------------------
\* The calls of the Table, Ident and Rule operations
\* ------------------------------------------------------------------------

InitCalls ==
    /\ EvalIdle
    /\ LatticeIdle
    /\ \/ call \in LookupCalls
       \/ call \in SerdeCalls
       \/ call \in TableJoinCalls
       \/ call \in GetPathCalls
       \/ call \in FireCalls
       \/ call \in BuildCalls
       \/ call \in RcCalls
       \/ call \in MoneyReprCalls
       \/ call \in MoneyTextCalls

NextCalls ==
    \/ IdentInsert
    \/ IdentGet
    \/ IdentSerialize
    \/ IdentDeserialize
    \/ TableJoin
    \/ GetPath
    \/ Fire
    \/ BuildInfer
    \/ BuildFrom
    \/ BuildRule
    \/ BuildRuleFallible
    \/ BuildInspect
    \/ RcClone
    \/ RcJoin
    \/ MoneyFormat
    \/ MoneyParse

SpecCalls == InitCalls /\ [][NextCalls]_vars

\* ------------------------------------------------------------------------
\* The evaluations run to completion: a call is a sequential function
\* ------------------------------------------------------------------------

FairSpec == Spec /\ WF_vars(NaiveLoop) /\ WF_vars(NaiveRule) /\ WF_vars(NaivePassEnd)

====
